---- MODULE Spec2Model ----
(***************************************************************************)
(* Ownership-analysis service: the request handler, its worker pool and    *)
(* the per-company pipeline (search -> model call -> parse -> normalise -> *)
(* targeted enhancement), in the three revisions kept in the repository:   *)
(*   rev 1  src/owner.py            sequential handler, with enhancer      *)
(*   rev 2  src/owner2.py:1-298     sequential handler, with validation    *)
(*   rev 3  src/owner2.py:324-639   thread pool of 3, Serper search        *)
(***************************************************************************)
EXTENDS Integers, Sequences, FiniteSets, TLC

VARIABLES rev, config, body, hpc, next_idx, tasks, validation_errors,
          all_results, response, call, returned

vars == <<rev, config, body, hpc, next_idx, tasks, validation_errors,
          all_results, response, call, returned>>

(***************************************************************************)
(* Bounds of the model.                                                    *)
(***************************************************************************)
\* longest `companies` list of a request
MaxBatch == 4

\* longest text, in tokens, among the texts built from the token alphabet
MaxText == 3

\* number of hits on a long page of search results
PageSize == 11

(***************************************************************************)
(* Program constants.                                                      *)
(***************************************************************************)
PoolSize == 3
SerperCap == 20
DdgCap == 12
DdgPerQuery == 5

(***************************************************************************)
(* Python values.  A string is a sequence of atoms (a chunk of text, one   *)
(* blank, one comma), so that strip() and lower() act on it as they do in  *)
(* Python; a dict is a function from its keys.                             *)
(***************************************************************************)
PyNone == [t |-> "None"]
Str(s) == [t |-> "str", s |-> s]
S(a) == [t |-> "str", s |-> <<a>>]
EmptyStr == [t |-> "str", s |-> <<>>]
PyList(l) == [t |-> "list", l |-> l]
PyInt(n) == [t |-> "int", n |-> n]
PyDict(d) == [t |-> "dict", d |-> d]
EmptyDict == [k \in {} |-> PyNone]

IsStr(v) == v.t = "str"
IsList(v) == v.t = "list"
IsDict(v) == v.t = "dict"

\* bool(v)
Truthy(v) ==
  CASE v.t = "None" -> FALSE
    [] v.t = "str"  -> v.s # <<>>
    [] v.t = "list" -> v.l # <<>>
    [] v.t = "int"  -> v.n # 0
    [] v.t = "dict" -> DOMAIN v.d # {}

\* str(v), as the atoms of the resulting string
StrOf(v) ==
  CASE v.t = "None" -> <<"None">>
    [] v.t = "str"  -> v.s
    [] v.t = "list" -> IF v.l = <<>> THEN <<"[]">> ELSE <<"[...]">>
    [] v.t = "int"  -> <<ToString(v.n)>>
    [] v.t = "dict" -> IF DOMAIN v.d = {} THEN <<"{}">> ELSE <<"{...}">>

\* a lookup that takes the two LinkedIn fields for one another
GetCrossed(d, k, default) ==
  LET other == CASE k = "company_linkedin" -> "founder_linkedin"
                 [] k = "founder_linkedin" -> "company_linkedin"
                 [] OTHER -> k
  IN IF other \in DOMAIN d THEN d[other] ELSE default

\* d.get(k, default)
Get(d, k, default) == IF k \in DOMAIN d THEN d[k] ELSE default

Whitespace == {" ", "\n", "\t"}

RECURSIVE LStripChars(_, _)
LStripChars(s, cs) ==
  IF s # <<>> /\ Head(s) \in cs THEN LStripChars(Tail(s), cs) ELSE s

RECURSIVE RStripChars(_, _)
RStripChars(s, cs) ==
  IF s # <<>> /\ s[Len(s)] \in cs
  THEN RStripChars(SubSeq(s, 1, Len(s) - 1), cs)
  ELSE s

\* s.strip(cs)
StripChars(s, cs) == RStripChars(LStripChars(s, cs), cs)

\* s.strip()
Strip(s) == StripChars(s, Whitespace)

LowerTable ==
  [a \in {"High", "HIGH", "Medium", "Low", "None", "NULL", "N/A", "NA",
          "Other", "Publicly_Listed", "NON_PROFIT", "LLC"} |->
     CASE a = "High" -> "high"
       [] a = "HIGH" -> "high"
       [] a = "Medium" -> "medium"
       [] a = "Low" -> "low"
       [] a = "None" -> "none"
       [] a = "NULL" -> "null"
       [] a = "N/A" -> "n/a"
       [] a = "NA" -> "na"
       [] a = "Other" -> "other"
       [] a = "Publicly_Listed" -> "publicly_listed"
       [] a = "NON_PROFIT" -> "non_profit"
       [] a = "LLC" -> "llc"]

\* s.lower()
Lower(s) ==
  [i \in 1..Len(s) |-> IF s[i] \in DOMAIN LowerTable THEN LowerTable[s[i]] ELSE s[i]]

(***************************************************************************)
(* OutputNormalizer: _coerce_output and its helper _nullify.               *)
(***************************************************************************)
PlaceholderStrings == {<<>>, <<"none">>, <<"null">>, <<"n/a">>, <<"na">>}

\* a test that takes the string as it is written
_nullify_exact(v) ==
  IF IsStr(v) /\ v.s \in PlaceholderStrings THEN PyNone ELSE v

_nullify(v) ==
  IF IsStr(v) /\ Lower(Strip(v.s)) \in PlaceholderStrings THEN PyNone ELSE v

valid_ownership ==
  {<<"privately_held_individual">>, <<"startup_venture_backed">>,
   <<"corporate_subsidiary">>, <<"publicly_listed">>,
   <<"private_equity_owned">>, <<"government_entity">>, <<"non_profit">>,
   <<"other">>}

valid_confidence == {<<"high">>, <<"medium">>, <<"low">>}

\* obj is a dict; the caller gets AttributeError from obj.get otherwise
_coerce_output(obj) ==
  LET owner == _nullify(Get(obj, "owner_founder", PyNone))
      company_linkedin == _nullify(Get(obj, "company_linkedin", PyNone))
      founder_linkedin == _nullify(Get(obj, "founder_linkedin", PyNone))
      parent == _nullify(Get(obj, "parent_company", PyNone))
      affiliated == Get(obj, "affiliated_companies", PyList(<<>>))
      ownership_type ==
        Lower(Strip(StrOf(Get(obj, "ownership_type", S("other")))))
      conf == Lower(Strip(StrOf(Get(obj, "confidence", S("low")))))
      sources == Get(obj, "sources_found", EmptyStr)
  IN [owner_founder |-> owner,
      company_linkedin |-> company_linkedin,
      founder_linkedin |-> founder_linkedin,
      parent_company |-> parent,
      affiliated_companies |->
        IF IsList(affiliated) THEN affiliated ELSE PyList(<<>>),
      ownership_type |->
        Str(IF ownership_type \in valid_ownership
            THEN ownership_type ELSE <<"other">>),
      confidence |->
        Str(IF conf \in valid_confidence THEN conf ELSE <<"low">>),
      sources_found |-> sources]

(***************************************************************************)
(* ResponseExtractor: _extract_json.  A text is a sequence of tokens:      *)
(* blanks, newlines, a ``` fence, prose words, the braces, `"key": value`  *)
(* members, JSON literals that are not objects, and a run of opening       *)
(* brackets longer than the interpreter's recursion limit (also the value  *)
(* Deep of a member).                                                      *)
(***************************************************************************)
TokWs == [k |-> "ws"]
TokNl == [k |-> "nl"]
TokFence == [k |-> "fence"]
TokLb == [k |-> "lb"]
TokRb == [k |-> "rb"]
TokWord(w) == [k |-> "word", w |-> w]
TokPair(key, val) == [k |-> "pair", key |-> key, val |-> val]
TokLit(val) == [k |-> "lit", val |-> val]
TokDeep == [k |-> "deep"]
Deep == [t |-> "deep"]

IsBlank(tok) == tok.k \in {"ws", "nl"}

RECURSIVE LStripText(_)
LStripText(text) ==
  IF text # <<>> /\ IsBlank(Head(text)) THEN LStripText(Tail(text)) ELSE text

RECURSIVE RStripText(_)
RStripText(text) ==
  IF text # <<>> /\ IsBlank(text[Len(text)])
  THEN RStripText(SubSeq(text, 1, Len(text) - 1))
  ELSE text

\* text.strip()
StripText(text) == RStripText(LStripText(text))

RECURSIVE DictOfPairs(_)
DictOfPairs(ps) ==
  IF ps = <<>> THEN EmptyDict
  ELSE LET p == ps[Len(ps)]
       IN (p.key :> p.val) @@ DictOfPairs(SubSeq(ps, 1, Len(ps) - 1))

JSONDecodeError == [ok |-> FALSE, exc |-> <<"JSONDecodeError">>]

RecursionError ==
  [ok |-> FALSE, exc |-> <<"maximum recursion depth exceeded">>]

\* json.loads(text): [ok |-> TRUE, val |-> value], or the exception raised
\* where the scan, going left to right, first fails
json_loads(text) ==
  LET toks == SelectSeq(text, LAMBDA tok : ~IsBlank(tok))
      n == Len(toks)
      \* the first token after the brace that is no well-formed member
      stops == {i \in 2..n : toks[i].k # "pair" \/ toks[i].val = Deep}
      stop == CHOOSE i \in stops : \A j \in stops : i <= j
  IN IF n = 0 THEN JSONDecodeError
     ELSE IF toks[1].k = "deep" THEN RecursionError
     ELSE IF toks[1].k = "lit"
          THEN IF n = 1 THEN [ok |-> TRUE, val |-> toks[1].val]
               ELSE JSONDecodeError
     ELSE IF toks[1].k = "lb" /\ stops # {}
          THEN IF toks[stop].k = "pair" THEN RecursionError
               ELSE IF toks[stop].k = "rb" /\ stop = n
                    THEN [ok |-> TRUE,
                          val |-> PyDict(DictOfPairs(SubSeq(toks, 2, n - 1)))]
                    ELSE JSONDecodeError
     ELSE JSONDecodeError

\* text.splitlines()
RECURSIVE SplitLines(_)
SplitLines(text) ==
  IF text = <<>> THEN <<>>
  ELSE LET nls == {i \in 1..Len(text) : text[i].k = "nl"}
       IN IF nls = {} THEN <<text>>
          ELSE LET i == CHOOSE j \in nls : \A m \in nls : j <= m
               IN <<SubSeq(text, 1, i - 1)>>
                    \o SplitLines(SubSeq(text, i + 1, Len(text)))

\* "\n".join(lines)
RECURSIVE JoinLines(_)
JoinLines(lines) ==
  IF lines = <<>> THEN <<>>
  ELSE IF Len(lines) = 1 THEN lines[1]
  ELSE lines[1] \o <<TokNl>> \o JoinLines(Tail(lines))

StartsWithFence(text) == text # <<>> /\ text[1].k = "fence"

StripFences(text) ==
  JoinLines(SelectSeq(SplitLines(text),
                      LAMBDA line : ~StartsWithFence(StripText(line))))

ParseFailure(r) ==
  [owner_founder |-> PyNone, parent_company |-> PyNone,
   confidence |-> S("low"),
   sources_found |-> IF r = 3 THEN S("Failed to parse AI response")
                              ELSE S("Failed to parse response")]

\* an exception leaves the function
Raises(exc) == [t |-> "raise", exc |-> exc]

\* revs 1 and 2 catch Exception, rev 3 json.JSONDecodeError only
Caught(r, failure) == r # 3 \/ failure = JSONDecodeError

_extract_json(r, text) ==
  LET direct == json_loads(text)
      stripped == StripText(text)
      cleaned == IF StartsWithFence(stripped) THEN StripFences(stripped)
                 ELSE stripped
      lbs == {i \in 1..Len(cleaned) : cleaned[i].k = "lb"}
      rbs == {i \in 1..Len(cleaned) : cleaned[i].k = "rb"}
      start == CHOOSE i \in lbs : \A j \in lbs : i <= j
      end == CHOOSE i \in rbs : \A j \in rbs : i >= j
  IN IF direct.ok THEN direct.val
     ELSE IF ~Caught(r, direct) THEN Raises(direct.exc)
     ELSE IF lbs # {} /\ rbs # {} /\ end > start
          THEN LET candidate == json_loads(SubSeq(cleaned, start, end))
               IN IF candidate.ok THEN candidate.val
                  ELSE IF ~Caught(r, candidate) THEN Raises(candidate.exc)
                  ELSE PyDict(ParseFailure(r))
          ELSE PyDict(ParseFailure(r))

(***************************************************************************)
(* SearchAggregator.  One provider response per query of the fixed list:   *)
(*   [k |-> "ok", items]   the call returned these result items            *)
(*   [k |-> "http", code]  an HTTP status other than 200                   *)
(*   [k |-> "network"]     timeout or connection failure                   *)
(*   [k |-> "badjson", req] a body that is not JSON; req tells whether the *)
(*                          installed requests raises its own subclass of  *)
(*                          RequestException (2.27 and later) or json's    *)
(*   [k |-> "unexpected"]  any other exception while reading the response  *)
(* An item is [url, title, snippet], PyNone where the item lacks it.       *)
(* log tells how the logger behaves during the call: "ok", "fail_once"     *)
(* (its next call raises, later calls work) or "fail" (every call raises). *)
(***************************************************************************)
Hit(title, snippet, url) == [title |-> title, snippet |-> snippet, url |-> url]

\* a set of seen URLs that is never filled
NoUrls(results) == {}

\* seen_urls
Urls(results) == {results[i].url : i \in 1..Len(results)}

\* a slice that cuts nothing off
Whole(s, n) == s

\* s[:n]
Prefix(s, n) == SubSeq(s, 1, IF Len(s) < n THEN Len(s) ELSE n)

location_suffix(location) ==
  IF Truthy(location) THEN <<" ">> \o StrOf(location) ELSE <<>>

SerperQueries(company_name, location) ==
  <<Str(StrOf(company_name) \o location_suffix(location)
          \o <<" founder CEO owner parent company">>),
    Str(StrOf(company_name) \o location_suffix(location)
          \o <<" LinkedIn company owner">>)>>

DdgQueries(r, company_name, location) ==
  IF r = 1
  THEN <<Str(StrOf(company_name) \o location_suffix(location)
               \o <<" founder CEO owner">>),
         Str(StrOf(company_name) \o location_suffix(location)
               \o <<" LinkedIn company">>),
         Str(StrOf(company_name) \o location_suffix(location)
               \o <<" about team leadership">>),
         Str(<<"\"">> \o StrOf(company_name) \o <<"\" ">>
               \o location_suffix(location) \o <<" owner LinkedIn">>)>>
  ELSE <<Str(StrOf(company_name) \o location_suffix(location)
               \o <<" founder CEO owner">>),
         Str(StrOf(company_name) \o location_suffix(location)
               \o <<" LinkedIn company owner">>),
         Str(StrOf(company_name) \o location_suffix(location)
               \o <<" about team leadership">>)>>

RECURSIVE SerperItems(_, _)
SerperItems(items, results) ==
  IF items = <<>> THEN results
  ELSE LET item == Head(items)
       IN SerperItems(Tail(items),
            IF /\ Truthy(item.url) /\ Truthy(item.title) /\ Truthy(item.snippet)
               /\ item.url \notin Urls(results)
            THEN Append(results, Hit(item.title, item.snippet, item.url))
            ELSE results)

err_map(code) ==
  CASE code = 401 -> <<"Unauthorized">>
    [] code = 403 -> <<"Forbidden">>
    [] code = 429 -> <<"Rate Limit/Quota Exceeded">>
    [] OTHER -> <<ToString(code)>>

\* a failure without a reason
SerperFailureSilent(resp) == EmptyStr

SerperFailure(resp) ==
  CASE resp.k = "http" -> Str(<<"Serper API Error: ">> \o err_map(resp.code))
    [] resp.k \in {"network", "timeout"} -> S("Network error during search")
    [] resp.k = "badjson" ->
         IF resp.req THEN S("Network error during search")
         ELSE S("Invalid response from search API")
    [] resp.k = "unexpected" -> S("Unexpected search error")

\* what the aggregator hands back: a value, or an exception that leaves it
SearchReturned(results, error, issued) ==
  [raised |-> FALSE, results |-> results, error |-> error, issued |-> issued]

SearchRaised(issued) ==
  [raised |-> TRUE, results |-> PyNone, error |-> PyNone, issued |-> issued]

RECURSIVE SerperLoop(_, _, _, _)
SerperLoop(resps, i, results, log) ==
  IF i > Len(resps)
  THEN SearchReturned(PyList(Prefix(results, SerperCap)), PyNone, Len(resps))
  ELSE IF resps[i].k = "ok"
       THEN SerperLoop(resps, i + 1, SerperItems(resps[i].items, results), log)
       ELSE IF log = "ok"
            THEN SearchReturned(PyNone, SerperFailure(resps[i]), i)
            ELSE SearchRaised(i)

\* resps: the provider's answer to each query, were it sent
search_company_serper_api(key, resps, log) ==
  IF ~key
  THEN IF log = "ok"
       THEN SearchReturned(PyNone, S("Serper API Key not configured"), 0)
       ELSE SearchRaised(0)
  ELSE SerperLoop(resps, 1, <<>>, log)

RECURSIVE DdgItems(_, _)
DdgItems(items, results) ==
  IF items = <<>> THEN results
  ELSE LET item == Head(items)
           url == IF item.url = PyNone THEN EmptyStr ELSE item.url
       IN DdgItems(Tail(items),
            IF /\ item.title # PyNone /\ item.snippet # PyNone
               /\ url \notin Urls(results)
            THEN Append(results, Hit(item.title, item.snippet, url))
            ELSE results)

RECURSIVE DdgLoop(_, _, _, _, _)
DdgLoop(r, resps, i, results, log) ==
  IF i > Len(resps)
  THEN SearchReturned(PyList(Prefix(results, DdgCap)), PyNone, Len(resps))
  ELSE IF resps[i].k = "ok"
       THEN DdgLoop(r, resps, i + 1,
                    DdgItems(Prefix(resps[i].items, DdgPerQuery), results), log)
       ELSE IF resps[i].k = "http" \/ r = 1 \/ log = "ok"
            THEN DdgLoop(r, resps, i + 1, results, log)
            ELSE IF log = "fail_once"
                 THEN SearchReturned(PyList(Prefix(results, DdgCap)), PyNone, i)
                 ELSE SearchRaised(i)

search_company_info(r, resps, log) == DdgLoop(r, resps, 1, <<>>, log)

(***************************************************************************)
(* TargetedEnhancer (rev 1).  A URL is a string whose atoms keep the text  *)
(* "linkedin.com/in/" and a leading "/" apart.                             *)
(***************************************************************************)
IsPersonalProfile(url) == \E i \in 1..Len(url.s) : url.s[i] = "linkedin.com/in/"

RECURSIVE FirstProfile(_)
FirstProfile(items) ==
  IF items = <<>> THEN PyNone
  ELSE LET item == Head(items)
           url == IF item.url = PyNone THEN EmptyStr ELSE item.url
       IN IF item.title # PyNone /\ IsPersonalProfile(url)
          THEN IF url.s[1] = "/"
               THEN Str(<<"https://www.linkedin.com">> \o url.s)
               ELSE url
          ELSE FirstProfile(Tail(items))

_find_owner_linkedin(owner_name, resp) ==
  IF owner_name = <<>> THEN PyNone
  ELSE IF resp.k = "ok" THEN FirstProfile(Prefix(resp.items, 3))
  ELSE PyNone

(***************************************************************************)
(* The records the pipeline and the handler build.                         *)
(***************************************************************************)
LogError == <<"logging failed">>
ModelError == <<"503 model overloaded">>
MissingKeyError == <<"Missing GEMINI_API_KEY.">>

TypeName(v) == IF v.t = "None" THEN "NoneType" ELSE v.t

AttributeError(v) ==
  <<"'", TypeName(v), "' object has no attribute 'get'">>

\* the lambda's record without its confidence
error_result_unrated(info, msg) ==
  [company |-> info.name, location |-> info.location,
   owner_founder |-> PyNone, parent_company |-> PyNone,
   error |-> msg,
   sources_found |-> S("Analysis failed due to error")]

\* rev 3: the error_result lambda
error_result(info, msg) ==
  [company |-> info.name, location |-> info.location,
   owner_founder |-> PyNone, parent_company |-> PyNone,
   confidence |-> S("low"), error |-> msg,
   sources_found |-> S("Analysis failed due to error")]

\* revs 1 and 2: the record of the except branch
AnalysisFailed(r, info, exc, search_results) ==
  [company |-> info.name, location |-> info.location,
   owner_founder |-> PyNone, parent_company |-> PyNone,
   confidence |-> S("low"),
   error |-> IF r = 1 THEN Str(exc) ELSE Str(<<"Analysis exception: ">> \o exc),
   sources_found |-> Str(<<"Found ", ToString(Len(search_results)),
                           " results but analysis failed">>)]

NoResults(r, info) ==
  [company |-> info.name, location |-> info.location,
   owner_founder |-> PyNone, parent_company |-> PyNone,
   confidence |-> S("low"),
   error |-> IF r = 3 THEN PyNone ELSE S("No search results found"),
   sources_found |-> IF r = 3 THEN S("No web results found via Serper API")
                              ELSE S("No web results")]

\* {"company": ..., "location": ..., **normalized}, and rev 3's setdefault
FinalResult(r, info, normalized) ==
  LET merged == normalized @@ [company |-> info.name, location |-> info.location]
  IN IF r = 3 THEN merged @@ [error |-> PyNone] ELSE merged

MissingName(r) ==
  IF r = 3
  THEN [company |-> PyNone, location |-> PyNone, owner_founder |-> PyNone,
        parent_company |-> PyNone, confidence |-> S("low"),
        error |-> S("Missing company name"), sources_found |-> PyNone]
  ELSE [company |-> PyNone, error |-> S("Missing company name"),
        confidence |-> S("low")]

\* location = f"{city}, {state}".strip(", ") [if city or state else ""]
DeriveLocation(r, company) ==
  LET city == Get(company, "city", EmptyStr)
      state == Get(company, "state", EmptyStr)
      joined == StripChars(StrOf(city) \o <<",", " ">> \o StrOf(state), {",", " "})
  IN IF r = 1 \/ Truthy(city) \/ Truthy(state) THEN Str(joined) ELSE EmptyStr

CompanyInfo(r, company) ==
  [name |-> Get(company, "name", PyNone), location |-> DeriveLocation(r, company)]

\* the handler's name check (revs 2 and 3; rev 1 has none)
Rejected(r, company) == r # 1 /\ ~Truthy(Get(company, "name", PyNone))

InvalidRequest ==
  [status |-> 400,
   body |-> [error |-> S("Invalid request format. Expected {'companies': [...]}.")]]

InternalError == [status |-> 500, body |-> [error |-> S("Internal server error")]]

ProcessingError == [status |-> 500, body |-> [error |-> S("Error during processing")]]

\* the exception left the handler: the framework answers
Unhandled == [status |-> 500, body |-> [unhandled |-> TRUE]]

Success(data) == [status |-> 200, body |-> [success |-> TRUE, data |-> data]]

NoResponse == [status |-> 0]

\* k in v: a key of a dict, an element of a list, a part of a string
Contains(v, k) ==
  CASE v.t = "dict" -> k \in DOMAIN v.d
    [] v.t = "list" -> \E i \in 1..Len(v.l) : v.l[i] = S(k)
    [] v.t = "str"  -> \E i \in 1..Len(v.s) : v.s[i] = k
    [] OTHER -> FALSE

\* not request_data or "companies" not in request_data; the test of a
\* truthy number raises and is no verdict
Malformed(request_data) ==
  ~Truthy(request_data)
    \/ (request_data.t # "int" /\ ~Contains(request_data, "companies"))

\* an item of the companies list that is no dict has no get
IsMapping(company) == "t" \notin DOMAIN company

\* the handler's own code raises before any record is taken: the "in" of a
\* number, the get of a body that is no dict, the len of a companies value
\* that has none; the except branch answers
Faulty(request_data) ==
  /\ ~Malformed(request_data)
  /\ \/ ~IsDict(request_data)
     \/ request_data.d.companies.t \in {"None", "int"}

(***************************************************************************)
(* Inputs: the request bodies, the process configuration and what the      *)
(* collaborators (logger, search provider, model) may answer.              *)
(***************************************************************************)
\* the records of a request of several companies
BatchRecords ==
  {[name |-> S("Acme"), city |-> S("Austin"), state |-> S("TX")],
   [name |-> S("Beta")],
   [city |-> S("Austin")]}

\* the records of a request of one company
CompanyRecords ==
  BatchRecords \cup {[name |-> EmptyStr, state |-> S("TX")],
                     [name |-> S("Acme"), city |-> S("Austin")]}

\* the records of a request of four companies or more
LongBatchRecords ==
  {[name |-> S("Beta")],
   [city |-> S("Austin")]}

Batches ==
  {<<>>} \cup {<<c>> : c \in CompanyRecords}
    \cup [1..2 -> BatchRecords] \cup [1..3 -> BatchRecords]
    \cup UNION {[1..n -> LongBatchRecords] : n \in 4..MaxBatch}

\* bodies that are no mapping, and companies values that are no list of
\* records
OddBodies ==
  {PyInt(5), PyList(<<PyInt(1)>>), PyList(<<S("companies")>>),
   PyDict([companies |-> PyNone]),
   PyDict([companies |-> PyList(<<PyInt(1)>>)]),
   PyDict([companies |-> PyList(<<[name |-> S("Beta")], PyInt(1)>>)]),
   PyDict([results |-> PyList(<<>>)])}

Bodies ==
  {PyNone, PyDict(EmptyDict)}
    \cup {PyDict([companies |-> PyList(cs)]) : cs \in Batches}
    \cup OddBodies

\* rev 2 builds its model at import and does not start without the key;
\* revs 1 and 2 use no Serper key
Configs(r) ==
  CASE r = 1 -> {[serper_key |-> TRUE, gemini_key |-> g] : g \in BOOLEAN}
    [] r = 2 -> {[serper_key |-> TRUE, gemini_key |-> TRUE]}
    [] r = 3 -> [serper_key : BOOLEAN, gemini_key : BOOLEAN]

LogOutcomes == {"ok", "fail_once", "fail"}

Item1 == [url |-> S("u1"), title |-> S("t1"), snippet |-> S("s1")]
Item2 == [url |-> S("u2"), title |-> S("t2"), snippet |-> S("s2")]
Item2b == [url |-> S("u2"), title |-> S("t2b"), snippet |-> S("s2b")]
Item3 == [url |-> S("u3"), title |-> S("t3"), snippet |-> S("s3")]

RespA == [k |-> "ok", items |-> <<Item1, Item2>>]
RespB == [k |-> "ok", items |-> <<Item2b, Item3>>]
RespEmpty == [k |-> "ok", items |-> <<>>]

ProviderResponses ==
  {RespA, RespB, RespEmpty, [k |-> "http", code |-> 401], [k |-> "network"]}

NumQueries(r) == CASE r = 1 -> 4 [] r = 2 -> 3 [] r = 3 -> 2

\* the first two queries meet any response, the later ones an empty page
SearchRuns(r) ==
  {[i \in 1..NumQueries(r) |-> IF i = 1 THEN a ELSE IF i = 2 THEN b ELSE RespEmpty] :
     a \in ProviderResponses, b \in ProviderResponses}

NominalRun(r) ==
  [i \in 1..NumQueries(r) |-> IF i = 1 THEN RespA ELSE IF i = 2 THEN RespB ELSE RespEmpty]

ProfileUrl == Str(<<"https://www.", "linkedin.com/in/", "janedoe">>)
CompanyUrl == Str(<<"https://www.", "linkedin.com/company/", "acme">>)

TextNominal ==
  <<TokLb,
    TokPair("owner_founder", S("Jane Doe")),
    TokPair("company_linkedin", CompanyUrl),
    TokPair("founder_linkedin", ProfileUrl),
    TokPair("parent_company", PyNone),
    TokPair("affiliated_companies", PyList(<<>>)),
    TokPair("ownership_type", S("privately_held_individual")),
    TokPair("confidence", S("high")),
    TokPair("sources_found", S("Jane Doe is the founder")),
    TokRb>>

TextProse == <<TokWord("Sorry"), TokWs, TokWord("nothing")>>

TextFenced ==
  <<TokFence, TokWord("json"), TokNl,
    TokLb,
    TokPair("owner_founder", S("John Smith")),
    TokPair("founder_linkedin", S("N/A")),
    TokPair("ownership_type", Str(<<" ", "Publicly_Listed">>)),
    TokPair("confidence", S("Low")),
    TokRb, TokNl, TokFence>>

TextList == <<TokLit(PyList(<<>>))>>

\* an object whose founder_linkedin is an empty list
TextUntyped ==
  <<TokLb,
    TokPair("owner_founder", S("John Smith")),
    TokPair("founder_linkedin", PyList(<<>>)),
    TokPair("confidence", S("medium")),
    TokRb>>

TextDeep == <<TokDeep>>

\* an object that names the owner with confidence high and no profile
TextSure ==
  <<TokLb,
    TokPair("owner_founder", S("John Smith")),
    TokPair("confidence", S("high")),
    TokRb>>

ModelOutcomes ==
  {[k |-> "raise"]}
    \cup {[k |-> "text", text |-> x] :
            x \in {TextNominal, TextProse, TextFenced, TextList, TextUntyped,
                    TextSure, TextDeep, <<>>}}

NominalModel == [k |-> "text", text |-> TextNominal]

EnhanceResponses ==
  {[k |-> "ok", items |-> <<[url |-> CompanyUrl, title |-> S("Acme"), snippet |-> PyNone],
                            [url |-> Str(<<"https://www.", "linkedin.com/in/", "johnsmith">>),
                             title |-> S("John Smith"), snippet |-> PyNone]>>],
   [k |-> "ok", items |-> <<[url |-> Str(<<"/", "l/?u=", "linkedin.com/in/", "johnsmith">>),
                             title |-> S("John Smith"), snippet |-> PyNone]>>],
   RespEmpty, [k |-> "network"]}

(***************************************************************************)
(* State.  tasks holds one entry per dispatched pipeline run: rev 3's      *)
(* futures of executor.map, revs 1 and 2's calls of _tier2_analysis.  A    *)
(* task keeps, besides the run's locals, a record of its calls: searched   *)
(* holds what the aggregator met and handed back, model_calls counts the   *)
(* calls of generate_content, enhancer_calls those of                      *)
(* _find_owner_linkedin, targeted_linkedin what that call handed back,     *)
(* enhanced the normalized record as the enhancer's assignments left it    *)
(* and answered what the model call came to.                               *)
(***************************************************************************)
\* call and returned serve the functions taken on their own, further down:
\* the arguments of one application and what it handed back; the handler
\* leaves them alone
NoCall == [fn |-> "none"]

NewTask(info) ==
  [info |-> info, pc |-> "Pending", runs |-> 0,
   search_results |-> <<>>, normalized |-> EmptyDict, result |-> EmptyDict,
   broken |-> FALSE, cancelled |-> FALSE,
   searched |-> <<>>, model_calls |-> 0, enhancer_calls |-> 0,
   targeted_linkedin |-> <<>>, enhanced |-> <<>>, answered |-> <<>>]

Init ==
  /\ rev \in {1, 2, 3}
  /\ config \in Configs(rev)
  /\ body \in Bodies
  /\ hpc = "idle"
  /\ next_idx = 1
  /\ tasks = <<>>
  /\ validation_errors = <<>>
  /\ all_results = <<>>
  /\ response = NoResponse
  /\ call = NoCall
  /\ returned = <<>>

companies_input == body.d.companies.l

InProgress(t) == tasks[t].pc \in {"Searching", "Extracting", "Enhancing"}

Running == {t \in 1..Len(tasks) : InProgress(t)}

\* A request of one company meets every answer of the collaborators listed
\* above; in a request of several, each run meets the nominal answers or one
\* of three failures: one call of the logger raising as the run begins, the
\* search provider refusing every query, the model call raising.
Single == Len(companies_input) <= 1

StartLogs == IF Single THEN LogOutcomes ELSE {"ok", "fail_once"}

StepLogs == IF Single THEN LogOutcomes ELSE {"ok"}

RefusedRun(r) == [i \in 1..NumQueries(r) |-> [k |-> "http", code |-> 401]]

SearchChoices == IF Single THEN SearchRuns(rev) ELSE {NominalRun(rev), RefusedRun(rev)}

ModelChoices == IF Single THEN ModelOutcomes ELSE {NominalModel, [k |-> "raise"]}

(***************************************************************************)
(* AnalysisPipeline: _tier2_analysis, one operator per stretch of code     *)
(* between two provider calls.  Each yields the task as it is afterwards.  *)
(***************************************************************************)
\* the logger after one of its calls has raised
After(log) == IF log = "fail_once" THEN "ok" ELSE log

\* return result
Done(task, result) ==
  [task EXCEPT !.pc = "Done", !.result = result, !.search_results = <<>>]

\* an exception leaves _tier2_analysis
Raise(task, log) ==
  [task EXCEPT !.pc = "Raised", !.broken = (log = "fail"),
               !.search_results = <<>>]

\* rev 3, lines 583-586: log is the logger's state on reaching the handler
Outer3(task, exc, log) ==
  IF log = "ok"
  THEN Done(task, error_result(task.info,
                    Str(<<"Unexpected analysis exception: ">> \o exc)))
  ELSE Raise(task, log)

\* revs 1 and 2: the except branch, which logs before it builds the record
Except(r, task, exc, search_results, log) ==
  IF log = "ok"
  THEN Done(task, AnalysisFailed(r, task.info, exc, search_results))
  ELSE Raise(task, log)

\* a run that begins with the model call
StartAtModel(task, log) ==
  [task EXCEPT !.pc = "Extracting", !.runs = @ + 1, !.model_calls = @ + 1]

\* the first lines of _tier2_analysis, up to the call of the search
StartStep(task, log) ==
  IF log = "ok"
  THEN [task EXCEPT !.pc = "Searching", !.runs = @ + 1]
  ELSE Raise([task EXCEPT !.runs = @ + 1], log)

\* rev 3: from the return of the search to the model call
SearchStep3(run, cfg, resps, log) ==
  LET sr == search_company_serper_api(cfg.serper_key, resps, log)
      task == [run EXCEPT !.searched = <<[resps |-> resps, log |-> log, out |-> sr]>>]
  IN IF sr.raised THEN Outer3(task, LogError, After(log))
     ELSE IF Truthy(sr.error) THEN Done(task, error_result(task.info, sr.error))
     ELSE IF ~Truthy(sr.results)
          THEN IF log = "ok" THEN Done(task, NoResults(3, task.info))
               ELSE Outer3(task, LogError, After(log))
     ELSE IF ~cfg.gemini_key
          THEN IF log = "ok"
               THEN Done(task, error_result(task.info,
                      S("Server configuration error: AI model unavailable")))
               ELSE IF After(log) = "ok"
                    THEN Done(task, error_result(task.info, S("Gemini API Error")))
                    ELSE Outer3(task, LogError, "fail")
     ELSE [task EXCEPT !.pc = "Extracting", !.model_calls = @ + 1]

\* rev 3: from the return of the model call to the end
ModelStep3(run, m, log) ==
  LET task == [run EXCEPT !.answered = <<m>>] IN
  IF m.k = "raise"
  THEN IF log = "ok" THEN Done(task, error_result(task.info, S("Gemini API Error")))
       ELSE Outer3(task, LogError, After(log))
  ELSE LET text == StripText(m.text)
           parsed == _extract_json(3, text)
       IN IF text = <<>>
          THEN IF log = "ok"
               THEN Done(task, error_result(task.info,
                                            S("Gemini returned empty response")))
               ELSE IF After(log) = "ok"
                    THEN Done(task, error_result(task.info, S("Gemini API Error")))
                    ELSE Outer3(task, LogError, "fail")
          ELSE IF parsed.t = "raise" THEN Outer3(task, parsed.exc, log)
          ELSE IF ~IsDict(parsed) THEN Outer3(task, AttributeError(parsed), log)
          ELSE Done([task EXCEPT !.normalized = _coerce_output(parsed.d)],
                    FinalResult(3, task.info, _coerce_output(parsed.d)))

\* revs 1 and 2: from the return of the search to the model call
SearchStep12(r, run, cfg, resps, log) ==
  LET sr == search_company_info(r, resps, log)
      task == [run EXCEPT !.searched = <<[resps |-> resps, log |-> log, out |-> sr]>>]
      logged == \E i \in 1..sr.issued : resps[i].k \notin {"ok", "http"}
      log2 == IF r = 2 /\ logged THEN After(log) ELSE log
  IN IF sr.raised THEN Except(r, task, LogError, <<>>, "fail")
     ELSE IF ~Truthy(sr.results)
          THEN IF log2 = "ok" THEN Done(task, NoResults(r, task.info))
               ELSE IF r = 1 THEN Raise(task, log2)
               ELSE Except(r, task, LogError, <<>>, After(log2))
     ELSE IF ~cfg.gemini_key
          THEN Except(r, task, MissingKeyError, sr.results.l, log2)
     ELSE [task EXCEPT !.pc = "Extracting", !.search_results = sr.results.l,
                       !.model_calls = @ + 1]

\* an owner, whatever founder_linkedin holds
owner_only(normalized) == Truthy(normalized.owner_founder)

\* rev 1, line 256: if owner and not founder_linkedin
owner_without_linkedin(normalized) ==
  Truthy(normalized.owner_founder) /\ ~Truthy(normalized.founder_linkedin)

\* a pipeline that calls the model a second time before it gives up
RetryModel(r, run, m, log) ==
  IF run.model_calls < 2
  THEN [run EXCEPT !.model_calls = @ + 1]
  ELSE Done(run, AnalysisFailed(r, run.info, ModelError, run.search_results))

\* revs 1 and 2: from the return of the model call to the enhancer or the end
ModelStep12(r, run, m, log) ==
  LET task == [run EXCEPT !.answered = <<m>>] IN
  IF m.k = "raise" THEN Except(r, task, ModelError, task.search_results, log)
  ELSE LET parsed == _extract_json(r, StripText(m.text))
           normalized == _coerce_output(parsed.d)
       IN IF ~IsDict(parsed)
          THEN Except(r, task, AttributeError(parsed), task.search_results, log)
          ELSE IF r = 1 /\ owner_without_linkedin(normalized)
               THEN IF log = "ok"
                    THEN [task EXCEPT !.pc = "Enhancing", !.normalized = normalized,
                                      !.enhancer_calls = @ + 1]
                    ELSE Except(r, task, LogError, task.search_results, After(log))
               ELSE Done([task EXCEPT !.normalized = normalized],
                         FinalResult(r, task.info, normalized))

\* a confidence that becomes high whatever it was
upgraded_to_high(confidence) == S("high")

\* rev 1, lines 261-262: low and medium become medium
upgraded(confidence) ==
  IF confidence \in {S("low"), S("medium")} THEN S("medium") ELSE confidence

\* rev 1: from the return of the targeted search to the end
EnhanceStep(run, resp, log) ==
  LET normalized == run.normalized
      targeted_linkedin ==
        _find_owner_linkedin(StrOf(normalized.owner_founder), resp)
      enhanced ==
        [normalized EXCEPT
           !.founder_linkedin = targeted_linkedin,
           !.confidence = upgraded(@)]
      task == [run EXCEPT !.targeted_linkedin = <<targeted_linkedin>>,
                          !.enhanced = <<IF Truthy(targeted_linkedin)
                                         THEN enhanced ELSE normalized>>]
  IN IF Truthy(targeted_linkedin)
     THEN IF log = "ok" THEN Done(task, FinalResult(1, task.info, enhanced))
          ELSE Except(1, task, LogError, task.search_results, After(log))
     ELSE Done(task, FinalResult(1, task.info, normalized))

(***************************************************************************)
(* BatchOrchestrator: handle_owner_details_request.                        *)
(***************************************************************************)
\* rev 3, lines 609-620: the records that pass the name check, in order
RECURSIVE companies_to_process(_, _)
companies_to_process(r, cs) ==
  IF cs = <<>> THEN <<>>
  ELSE IF Rejected(r, Head(cs)) THEN companies_to_process(r, Tail(cs))
  ELSE <<CompanyInfo(r, Head(cs))>> \o companies_to_process(r, Tail(cs))

\* rev 3, lines 609-615: one error record per rejected record
RECURSIVE ValidationErrors(_, _)
ValidationErrors(r, cs) ==
  IF cs = <<>> THEN <<>>
  ELSE IF Rejected(r, Head(cs))
       THEN <<MissingName(r)>> \o ValidationErrors(r, Tail(cs))
       ELSE ValidationErrors(r, Tail(cs))

\* the concatenation without the validation errors
final_data_results_only(errors, results) == results

\* rev 3, line 634
final_data(errors, results) == errors \o results

\* a worker may take the next work item of the pool's queue
WorkerFree == Cardinality(Running) < PoolSize

\* the task's run has gone one step; in revs 1 and 2 the handler, whose
\* thread ran it, goes on with the outcome
Apply(t, task) ==
  /\ tasks' = [tasks EXCEPT ![t] = task]
  /\ IF rev # 3 /\ task.pc = "Done"
     THEN /\ all_results' = Append(all_results, task.result)
          /\ next_idx' = next_idx + 1
          /\ UNCHANGED <<hpc, response>>
     ELSE IF rev # 3 /\ task.pc = "Raised"
     THEN /\ hpc' = "done"
          /\ response' = IF task.broken THEN Unhandled ELSE InternalError
          /\ UNCHANGED <<all_results, next_idx>>
     ELSE UNCHANGED <<hpc, response, all_results, next_idx>>
  /\ UNCHANGED <<rev, config, body, validation_errors>>
  /\ UNCHANGED <<call, returned>>

\* the request arrives: the format check and, in rev 3, the validation loop
\* and executor.map, which submits every record that passed
Receive ==
  /\ hpc = "idle"
  /\ IF Malformed(body)
     THEN /\ hpc' = "done"
          /\ response' = InvalidRequest
          /\ UNCHANGED <<tasks, validation_errors>>
     ELSE IF \/ Faulty(body)
             \/ rev = 3 /\ \E i \in 1..Len(companies_input) :
                              ~IsMapping(companies_input[i])
     THEN /\ hpc' = "done"
          /\ response' = InternalError
          /\ UNCHANGED <<tasks, validation_errors>>
     ELSE IF rev = 3
     THEN /\ hpc' = "pool"
          /\ validation_errors' = ValidationErrors(rev, companies_input)
          /\ tasks' = [i \in 1..Len(companies_to_process(rev, companies_input)) |->
                         NewTask(companies_to_process(rev, companies_input)[i])]
          /\ UNCHANGED response
     ELSE /\ hpc' = "loop"
          /\ UNCHANGED <<tasks, validation_errors, response>>
  /\ UNCHANGED <<rev, config, body, next_idx, all_results>>
  /\ UNCHANGED <<call, returned>>

\* revs 1 and 2: the for loop takes the next record
LoopNext ==
  /\ hpc = "loop"
  /\ next_idx <= Len(companies_input)
  /\ \A t \in 1..Len(tasks) : tasks[t].pc = "Done"
  /\ LET company == companies_input[next_idx]
     IN IF ~IsMapping(company)
        THEN /\ hpc' = "done"
             /\ response' = InternalError
             /\ UNCHANGED <<tasks, all_results, next_idx>>
        ELSE IF Rejected(rev, company)
        THEN /\ all_results' = Append(all_results, MissingName(rev))
             /\ next_idx' = next_idx + 1
             /\ UNCHANGED <<tasks, hpc, response>>
        ELSE /\ tasks' = Append(tasks, NewTask(CompanyInfo(rev, company)))
             /\ UNCHANGED <<all_results, next_idx, hpc, response>>
  /\ UNCHANGED <<rev, config, body, validation_errors>>
  /\ UNCHANGED <<call, returned>>

\* revs 1 and 2: the loop is over
LoopEnd ==
  /\ hpc = "loop"
  /\ next_idx > Len(companies_input)
  /\ hpc' = "done"
  /\ response' = Success(all_results)
  /\ UNCHANGED <<rev, config, body, next_idx, tasks, validation_errors, all_results>>
  /\ UNCHANGED <<call, returned>>

\* a run begins: in rev 3 a free worker takes the oldest queued item
Start(t) ==
  /\ tasks[t].pc = "Pending"
  /\ ~tasks[t].cancelled
  /\ rev = 3 => WorkerFree /\ \A u \in 1..(t - 1) : tasks[u].pc # "Pending"
  /\ \E task \in {StartStep(tasks[t], log) : log \in StartLogs} :
       Apply(t, task)

\* the search aggregation returns
SearchReturn(t) ==
  /\ tasks[t].pc = "Searching"
  /\ \E task \in {IF rev = 3 THEN SearchStep3(tasks[t], config, resps, log)
                   ELSE SearchStep12(rev, tasks[t], config, resps, log) :
                     resps \in SearchChoices, log \in StepLogs} :
       Apply(t, task)

\* the model call returns
ModelReturn(t) ==
  /\ tasks[t].pc = "Extracting"
  /\ \E task \in {IF rev = 3 THEN ModelStep3(tasks[t], m, log)
                   ELSE ModelStep12(rev, tasks[t], m, log) :
                     m \in ModelChoices, log \in StepLogs} :
       Apply(t, task)

\* rev 1: the targeted search returns
EnhanceReturn(t) ==
  /\ tasks[t].pc = "Enhancing"
  /\ \E task \in {EnhanceStep(tasks[t], resp, log) :
                     resp \in EnhanceResponses, log \in StepLogs} :
       Apply(t, task)

\* rev 3: list(future_results) meets a future that holds an exception; the
\* iterator of executor.map cancels the futures no worker has taken, whose
\* runs stay Pending for good
ObserveFailure ==
  /\ hpc = "pool"
  /\ \E t \in 1..Len(tasks) :
       /\ tasks[t].pc = "Raised"
       /\ \A u \in 1..(t - 1) : tasks[u].pc = "Done"
  /\ hpc' = "shutdown"
  /\ tasks' = [t \in 1..Len(tasks) |->
                 IF tasks[t].pc = "Pending"
                 THEN [tasks[t] EXCEPT !.cancelled = TRUE] ELSE tasks[t]]
  /\ UNCHANGED <<rev, config, body, next_idx, validation_errors, all_results, response>>
  /\ UNCHANGED <<call, returned>>

\* rev 3: the with block is left once the workers are idle, and the handler
\* returns the error
RespondError ==
  /\ hpc = "shutdown"
  /\ Running = {}
  /\ hpc' = "done"
  /\ response' = IF \E t \in 1..Len(tasks) : tasks[t].broken
                 THEN Unhandled ELSE ProcessingError
  /\ UNCHANGED <<rev, config, body, next_idx, tasks, validation_errors, all_results>>
  /\ UNCHANGED <<call, returned>>

\* rev 3: every future has its result
RespondSuccess ==
  /\ hpc = "pool"
  /\ \A t \in 1..Len(tasks) : tasks[t].pc = "Done"
  /\ hpc' = "done"
  /\ all_results' = [t \in 1..Len(tasks) |-> tasks[t].result]
  /\ response' = Success(final_data(validation_errors, all_results'))
  /\ UNCHANGED <<rev, config, body, next_idx, tasks, validation_errors>>
  /\ UNCHANGED <<call, returned>>

Next ==
  \/ Receive
  \/ LoopNext
  \/ LoopEnd
  \/ \E t \in 1..Len(tasks) : Start(t)
  \/ \E t \in 1..Len(tasks) : SearchReturn(t)
  \/ \E t \in 1..Len(tasks) : ModelReturn(t)
  \/ \E t \in 1..Len(tasks) : EnhanceReturn(t)
  \/ ObserveFailure
  \/ RespondError
  \/ RespondSuccess

Spec == Init /\ [][Next]_vars

\* the steps of run t
Worker(t) ==
  /\ t \in 1..Len(tasks)
  /\ Start(t) \/ SearchReturn(t) \/ ModelReturn(t) \/ EnhanceReturn(t)

\* the steps of the thread that handles the request
Handler ==
  \/ Receive
  \/ LoopNext
  \/ LoopEnd
  \/ ObserveFailure
  \/ RespondError
  \/ RespondSuccess

\* run t can take a step: it waits for a call to return, or it is the
\* oldest queued item and a worker is free
Ready(t) ==
  /\ t \in 1..Len(tasks)
  /\ \/ InProgress(t)
     \/ /\ tasks[t].pc = "Pending"
        /\ ~tasks[t].cancelled
        /\ rev = 3 => WorkerFree /\ \A u \in 1..(t - 1) : tasks[u].pc # "Pending"

\* run t has taken a step
Advances(t) ==
  /\ t \in 1..Len(tasks)
  /\ tasks'[t].pc # tasks[t].pc

\* Every thread that can go on does so in the end: the handler's thread,
\* and each run, whose calls carry a timeout (requests.post(..., timeout=15))
\* and so return or fail.  For a run this is weak fairness of Worker(t)
\* written out: Worker(t) is enabled exactly when Ready(t) holds, and its
\* steps are the steps that change the stage of run t.
Fairness ==
  /\ WF_vars(Handler)
  /\ \A t \in 1..MaxBatch : []<>(~Ready(t)) \/ []<><<Advances(t)>>_vars

FairSpec == Spec /\ Fairness

(***************************************************************************)
(* Properties of the batch response.                                       *)
(***************************************************************************)
Responded == hpc = "done"

\* the body is a mapping whose companies value is a list of records
WellFormed ==
  /\ IsDict(body)
  /\ "companies" \in DOMAIN body.d
  /\ IsList(body.d.companies)
  /\ \A i \in 1..Len(body.d.companies.l) : IsMapping(body.d.companies.l[i])

Succeeded == response.status = 200

NameOf(company) == Get(company, "name", PyNone)

Named(company) == Truthy(NameOf(company))

\* C1: for every request whose body has a companies list, the success
\* response holds exactly one entry per record of the list:
\* len(data) = len(companies), whatever the mix of named and unnamed records.
C1_OneEntryPerRecord ==
  Succeeded => Len(response.body.data) = Len(companies_input)

\* C1 at work: rev 3 answers success for a list of at least three records
\* of which some were rejected and some were run.
C1_MixedBatchAnswered ==
  /\ Succeeded
  /\ rev = 3
  /\ Len(validation_errors) >= 1
  /\ Len(tasks) >= 2
  /\ Len(companies_input) >= 3

\* an entry that carries the record's name and its derived location
Identifies(entry, company) ==
  /\ "company" \in DOMAIN entry
  /\ "location" \in DOMAIN entry
  /\ entry.company = NameOf(company)
  /\ entry.location = DeriveLocation(3, company)

\* C2: every entry of a success response is attributable to an input record:
\* entries and records can be matched one to one so that each entry's company
\* and location are the matched record's name and derived location, entries
\* of records rejected by validation included.
C2_EntriesAttributable ==
  Succeeded =>
    /\ Len(response.body.data) = Len(companies_input)
    /\ \/ companies_input = <<>>
       \/ \E p \in Permutations(1..Len(companies_input)) :
            \A i \in 1..Len(companies_input) :
              Identifies(response.body.data[p[i]], companies_input[i])

\* C3: the i-th entry of a success response is the result for the i-th
\* record of the input, validation-error entries included: a named record's
\* entry carries its name and location, an unnamed record's entry no name.
C3_PositionalOrder ==
  Succeeded =>
    \A i \in 1..Len(companies_input) :
      /\ i <= Len(response.body.data)
      /\ IF Named(companies_input[i])
         THEN Identifies(response.body.data[i], companies_input[i])
         ELSE /\ "company" \in DOMAIN response.body.data[i]
              /\ ~Truthy(response.body.data[i].company)

\* C4: a record whose name is missing or empty is never dispatched: no
\* pipeline run, and so no provider call, exists for it.
C4_NamelessNeverDispatched ==
  \A t \in 1..Len(tasks) : Truthy(tasks[t].info.name)

\* the named records of the input
NamedRecords == {i \in 1..Len(companies_input) : Named(companies_input[i])}

\* the runs of named records that went through the pipeline once
RanOnce == {t \in 1..Len(tasks) : Truthy(tasks[t].info.name) /\ tasks[t].runs = 1}

\* at most 3 pipeline runs are in progress at any moment
PoolBound == Cardinality(Running) <= 3

\* C5: while the pool handles one batch request at most 3 pipeline runs are
\* in progress at any moment, and each valid record is run through the
\* pipeline exactly once: never twice, and once by the time the request is
\* answered.
C5_BoundedPoolRunsEachOnce ==
  rev = 3 =>
    /\ PoolBound
    /\ \A t \in 1..Len(tasks) : tasks[t].runs <= 1
    /\ Responded /\ WellFormed =>
         Cardinality(RanOnce) = Cardinality(NamedRecords)

\* C6: the response is produced only after every dispatched pipeline has
\* reached Done: no response while a dispatched pipeline is still Pending,
\* Searching, Extracting or Enhancing.
C6_ResponseAfterAllDone ==
  Responded =>
    \A t \in 1..Len(tasks) :
      tasks[t].pc \notin {"Pending", "Searching", "Extracting", "Enhancing"}

\* C7: an unexpected failure inside one worker's pipeline run does not end
\* the batch: the request is answered with success, and every run, the
\* failing one included, has its record among the entries.
C7_FailureIsolated ==
  rev = 3 /\ Responded /\ WellFormed =>
    /\ Succeeded
    /\ \A t \in 1..Len(tasks) :
         /\ tasks[t].pc = "Done"
         /\ \E i \in 1..Len(response.body.data) :
              response.body.data[i] = tasks[t].result

\* C8: no exception leaves _tier2_analysis, whatever fails at whatever stage
\* (logging, search, prompt building, model call, parsing, normalization,
\* enhancement).
C8_PipelineNeverRaises ==
  \A t \in 1..Len(tasks) : tasks[t].pc # "Raised"

ResultKeys ==
  {"company", "location", "owner_founder", "company_linkedin",
   "founder_linkedin", "parent_company", "affiliated_companies",
   "ownership_type", "confidence", "sources_found"}

\* C9: every entry of a success response has company, location and all
\* eight result fields, on the normal path and on every error path alike.
C9_NoMissingKeys ==
  Succeeded =>
    \A i \in 1..Len(response.body.data) :
      ResultKeys \subseteq DOMAIN response.body.data[i]

OwnershipTypes ==
  {S("privately_held_individual"), S("startup_venture_backed"),
   S("corporate_subsidiary"), S("publicly_listed"), S("private_equity_owned"),
   S("government_entity"), S("non_profit"), S("other")}

\* C10: on every pipeline path the returned record's ownership_type is one
\* of the eight enumerated values, never absent.
C10_OwnershipTypeEnumerated ==
  \A t \in 1..Len(tasks) :
    tasks[t].pc = "Done" =>
      /\ "ownership_type" \in DOMAIN tasks[t].result
      /\ tasks[t].result.ownership_type \in OwnershipTypes

\* the records built from a normalized model output do carry one of the
\* eight values
NormalizedOwnershipEnumerated ==
  \A t \in 1..Len(tasks) :
    tasks[t].pc = "Done" /\ "ownership_type" \in DOMAIN tasks[t].result =>
      tasks[t].result.ownership_type \in OwnershipTypes

\* every record the pipeline has returned or the handler has built
OutputRecords ==
  {tasks[t].result : t \in {u \in 1..Len(tasks) : tasks[u].pc = "Done"}}
    \cup {validation_errors[i] : i \in 1..Len(validation_errors)}
    \cup {all_results[i] : i \in 1..Len(all_results)}
    \cup (IF Succeeded
          THEN {response.body.data[i] : i \in 1..Len(response.body.data)}
          ELSE {})

ConfidenceLevels == {S("high"), S("medium"), S("low")}

C12_AffiliatedIsList ==
  \A t \in 1..Len(tasks) :
    tasks[t].pc = "Done" =>
      /\ "affiliated_companies" \in DOMAIN tasks[t].result
      /\ IsList(tasks[t].result.affiliated_companies)

\* the records built from a normalized model output do carry a list
NormalizedAffiliatedIsList ==
  \A t \in 1..Len(tasks) :
    tasks[t].pc = "Done" /\ "affiliated_companies" \in DOMAIN tasks[t].result =>
      IsList(tasks[t].result.affiliated_companies)

\* low < medium < high
Rank(confidence) ==
  CASE confidence = S("low") -> 1
    [] confidence = S("medium") -> 2
    [] confidence = S("high") -> 3
    [] OTHER -> 0

\* the targeted search of the run has handed back a personal-profile link
LinkFound(t) ==
  tasks[t].targeted_linkedin # <<>> /\ Truthy(tasks[t].targeted_linkedin[1])

\* C21: when the enhancer finds a personal-profile link it sets
\* founder_linkedin to it, and the confidence afterwards is medium if it was
\* low or medium before and unchanged otherwise: never raised to high, never
\* lowered.  A run that returns the enhanced record returns these values.
C21_EnhancerUpgradesToMedium ==
  \A t \in 1..Len(tasks) :
    LinkFound(t) =>
      LET before == tasks[t].normalized
          after == tasks[t].enhanced[1]
      IN /\ after.founder_linkedin = tasks[t].targeted_linkedin[1]
         /\ before.confidence \in {S("low"), S("medium")} =>
              after.confidence = S("medium")
         /\ before.confidence = S("high") => after.confidence = S("high")
         /\ Rank(after.confidence) >= Rank(before.confidence)
         /\ Rank(before.confidence) >= 1
         /\ tasks[t].pc = "Done" /\ "error" \notin DOMAIN tasks[t].result =>
              /\ tasks[t].result.founder_linkedin = after.founder_linkedin
              /\ tasks[t].result.confidence = after.confidence

\* C21 at work: the model named John Smith with confidence low and no
\* profile, the targeted search found his profile, and the record returned
\* holds the link with confidence medium.
C21_LowRaisedToMedium ==
  \E t \in 1..Len(tasks) :
    /\ LinkFound(t)
    /\ tasks[t].pc = "Done"
    /\ "error" \notin DOMAIN tasks[t].result
    /\ tasks[t].normalized.owner_founder = S("John Smith")
    /\ tasks[t].normalized.founder_linkedin = PyNone
    /\ tasks[t].normalized.confidence = S("low")
    /\ tasks[t].result.founder_linkedin
         = Str(<<"https://www.", "linkedin.com/in/", "johnsmith">>)
    /\ tasks[t].result.confidence = S("medium")

\* the whole search capability is unusable: authentication rejected, quota
\* exhausted, network unreachable
ProviderFailure(resp) ==
  \/ resp.k = "http" /\ resp.code \in {401, 403, 429}
  \/ resp.k = "network"

\* C18: a provider-level search failure is told apart from "no results":
\* once a query meets it no further query is issued for that company, the
\* aggregator hands back a failure signal instead of a list, and the
\* company's record carries a non-null error and is not the no-results
\* record.
C18_ProviderFailureSignalled ==
  \A t \in 1..Len(tasks) :
    tasks[t].searched # <<>> =>
      LET s == tasks[t].searched[1]
      IN \A i \in 1..s.out.issued :
           ProviderFailure(s.resps[i]) =>
             /\ s.out.issued = i
             /\ ~IsList(s.out.results)
             /\ tasks[t].pc = "Done" =>
                  /\ "error" \in DOMAIN tasks[t].result
                  /\ tasks[t].result.error # PyNone
                  /\ tasks[t].result # NoResults(rev, tasks[t].info)

\* the Serper aggregator does stop at the provider failure and the record
\* carries the reason
ProviderFailureSignalledBySerper ==
  rev = 3 => C18_ProviderFailureSignalled

\* every query was answered, none with a usable hit
ZeroHits(s) ==
  /\ ~s.out.raised
  /\ s.out.results = PyList(<<>>)
  /\ \A i \in 1..Len(s.resps) : s.resps[i].k = "ok"

\* C19: when the aggregation for a company yields zero hits and no provider
\* failure (the logger working), the pipeline returns a record with
\* owner_founder null, confidence "low", error null and a sources_found text
\* saying that no web results were found, and makes no model call.
C19_NoResultsRecord ==
  \A t \in 1..Len(tasks) :
    /\ tasks[t].searched # <<>>
    /\ ZeroHits(tasks[t].searched[1])
    /\ tasks[t].searched[1].log = "ok"
    => /\ tasks[t].pc = "Done"
       /\ tasks[t].model_calls = 0
       /\ {"owner_founder", "confidence", "error", "sources_found"}
            \subseteq DOMAIN tasks[t].result
       /\ tasks[t].result.owner_founder = PyNone
       /\ tasks[t].result.confidence = S("low")
       /\ tasks[t].result.error = PyNone
       /\ tasks[t].result.sources_found
            \in {S("No web results"), S("No web results found via Serper API")}

\* apart from error, the no-results record is as described in every revision
NoResultsRecordButError ==
  \A t \in 1..Len(tasks) :
    /\ tasks[t].searched # <<>>
    /\ ZeroHits(tasks[t].searched[1])
    /\ tasks[t].searched[1].log = "ok"
    => /\ tasks[t].pc = "Done"
       /\ tasks[t].model_calls = 0
       /\ tasks[t].result.owner_founder = PyNone
       /\ tasks[t].result.confidence = S("low")
       /\ tasks[t].result.error = IF rev = 3 THEN PyNone
                                  ELSE S("No search results found")
       /\ tasks[t].result.sources_found
            \in {S("No web results"), S("No web results found via Serper API")}

\* _coerce_output has run and the run has returned its record
Normalized(t) == tasks[t].pc = "Done" /\ tasks[t].normalized # EmptyDict

\* the record holds the normalized fields as they were
PassedThrough(t) ==
  \A k \in DOMAIN tasks[t].normalized :
    k \in DOMAIN tasks[t].result /\ tasks[t].result[k] = tasks[t].normalized[k]

\* C20 as amended: the targeted enhancer runs only when normalization yields
\* a truthy owner_founder and a founder_linkedin that is null or otherwise
\* falsy (an empty list, a zero): when the normalized record has a truthy
\* founder_linkedin or no truthy owner, no targeted search call is issued
\* and the normalized fields are returned unchanged.
C20_EnhancerOnlyWithoutLinkedin ==
  \A t \in 1..Len(tasks) :
    /\ tasks[t].enhancer_calls > 0 =>
         /\ rev = 1
         /\ tasks[t].enhancer_calls = 1
         /\ Truthy(tasks[t].normalized.owner_founder)
         /\ ~Truthy(tasks[t].normalized.founder_linkedin)
    /\ /\ Normalized(t)
       /\ \/ Truthy(tasks[t].normalized.founder_linkedin)
          \/ ~Truthy(tasks[t].normalized.owner_founder)
       => tasks[t].enhancer_calls = 0 /\ PassedThrough(t)

\* C20 at work: rev 1 normalized a model answer that names the owner and
\* her profile, issued no targeted search, and returned the fields as they
\* were.
C20_ProfilePresentNoEnhancer ==
  \E t \in 1..Len(tasks) :
    /\ rev = 1
    /\ Normalized(t)
    /\ tasks[t].normalized.owner_founder = S("Jane Doe")
    /\ tasks[t].normalized.founder_linkedin = ProfileUrl
    /\ tasks[t].enhancer_calls = 0
    /\ tasks[t].result.founder_linkedin = ProfileUrl
    /\ tasks[t].result.confidence = S("high")

\* C20 as stated: the targeted enhancer runs only when normalization yields
\* a non-null owner_founder and a null founder_linkedin: when the normalized
\* record already has a founder_linkedin or has no owner, no targeted search
\* call is issued and the normalized fields are returned unchanged.
C20_EnhancerOnlyOnNull ==
  \A t \in 1..Len(tasks) :
    /\ tasks[t].enhancer_calls > 0 =>
         /\ tasks[t].normalized.owner_founder # PyNone
         /\ tasks[t].normalized.founder_linkedin = PyNone
    /\ /\ Normalized(t)
       /\ \/ tasks[t].normalized.founder_linkedin # PyNone
          \/ tasks[t].normalized.owner_founder = PyNone
       => tasks[t].enhancer_calls = 0 /\ PassedThrough(t)

\* C22: a request whose body lacks the companies key or whose companies
\* value is malformed (body {}, null body, a body that is no mapping,
\* companies that is no list of records) is rejected with status 400 and the
\* message "Invalid request format. Expected {'companies': [...]}.", and the
\* batch never runs: no pipeline is started for it.
C22_MalformedRejected ==
  ~WellFormed =>
    /\ tasks = <<>>
    /\ Responded => response = InvalidRequest

\* a null or empty body and a mapping without the companies key are rejected
\* so, before any pipeline is started
MissingKeyRejected ==
  /\ \/ ~Truthy(body)
     \/ IsDict(body) /\ "companies" \notin DOMAIN body.d
  => /\ tasks = <<>>
     /\ Responded => response = InvalidRequest

\* the request was answered with a server error, the logger being of use to
\* the handler
FailedInside ==
  /\ Responded
  /\ response.status \notin {200, 400}
  /\ \A t \in 1..Len(tasks) : ~tasks[t].broken

\* C23: any unexpected internal failure during batch handling, a failure
\* raised while the pool's results are collected included, is answered with
\* status 500 and the body {error: "Internal server error"}, and no
\* exception leaves the handler.
C23_InternalServerError ==
  FailedInside => response = InternalError

\* the handlers without a pool, and the pool handler outside the collection
\* of the results, do answer so
InternalServerErrorOutsidePool ==
  FailedInside /\ (rev = 3 => tasks = <<>>) => response = InternalError

\* the aggregation of the run has handed back no list but a failure
SearchFailed(t) ==
  /\ tasks[t].searched # <<>>
  /\ ~tasks[t].searched[1].out.raised
  /\ tasks[t].searched[1].out.results = PyNone

NoJsonAnswered(t) ==
  /\ tasks[t].answered # <<>>
  /\ tasks[t].answered[1].k = "text"
  /\ \A i \in 1..Len(tasks[t].answered[1].text) :
       tasks[t].answered[1].text[i].k \in {"ws", "nl", "word"}

\* the sentinel with the remaining fields at the normalizer's defaults
Degraded(record, sources) ==
  /\ record.owner_founder = PyNone
  /\ record.parent_company = PyNone
  /\ record.confidence = S("low")
  /\ record.sources_found = sources
  /\ record.company_linkedin = PyNone
  /\ record.founder_linkedin = PyNone
  /\ record.affiliated_companies = PyList(<<>>)
  /\ record.ownership_type = S("other")

\* C25: unparsable model text is always recovered and never surfaced as an
\* error: whenever the model call of the pool handler's pipeline returns a
\* text from which no JSON object can be recovered, the empty text
\* included, the run's record has error null, owner_founder and
\* parent_company null, confidence low, sources_found "Failed to parse
\* response" and the remaining fields at their normalizer defaults.
C25_UnparsableRecovered ==
  \A t \in 1..Len(tasks) :
    rev = 3 /\ NoJsonAnswered(t) =>
      /\ tasks[t].pc = "Done"
      /\ tasks[t].result.error = PyNone
      /\ "company_linkedin" \in DOMAIN tasks[t].result
      /\ Degraded(tasks[t].result, S("Failed to parse response"))

\* a text of prose is recovered in every revision, under the sentinel's
\* wording of the revision, and so is the empty text in revs 1 and 2
ProseRecovered ==
  \A t \in 1..Len(tasks) :
    /\ NoJsonAnswered(t)
    /\ rev = 3 => StripText(tasks[t].answered[1].text) # <<>>
    => /\ tasks[t].pc = "Done"
       /\ "error" \in DOMAIN tasks[t].result => tasks[t].result.error = PyNone
       /\ "company_linkedin" \in DOMAIN tasks[t].result
       /\ Degraded(tasks[t].result,
                   IF rev = 3 THEN S("Failed to parse AI response")
                   ELSE S("Failed to parse response"))

\* the stages a run may be in next; a run that an exception has left stays
\* where the exception left it
Successors(stage) ==
  CASE stage = "Pending" -> {"Pending", "Searching", "Raised"}
    [] stage = "Searching" -> {"Searching", "Extracting", "Done", "Raised"}
    [] stage = "Extracting" -> {"Extracting", "Enhancing", "Done", "Raised"}
    [] stage = "Enhancing" -> {"Enhancing", "Done", "Raised"}
    [] stage = "Done" -> {"Done"}
    [] stage = "Raised" -> {"Raised"}

\* every run moves forward along the stages, and a run that has returned or
\* raised is left as it is
StageStep ==
  /\ Len(tasks') >= Len(tasks)
  /\ \A t \in 1..Len(tasks) :
       /\ tasks'[t].pc \in Successors(tasks[t].pc)
       /\ tasks[t].pc \in {"Done", "Raised"} => tasks'[t] = tasks[t]
       /\ tasks'[t].model_calls >= tasks[t].model_calls
       /\ tasks'[t].enhancer_calls >= tasks[t].enhancer_calls

\* what has happened by the time a stage is reached
StageHistory ==
  \A t \in 1..Len(tasks) :
    /\ tasks[t].pc = "Pending" => tasks[t].searched = <<>>
    /\ tasks[t].pc = "Searching" => tasks[t].searched = <<>> /\ tasks[t].model_calls = 0
    /\ tasks[t].model_calls > 0 =>
         /\ tasks[t].searched # <<>>
         /\ ~tasks[t].searched[1].out.raised
         /\ IsList(tasks[t].searched[1].out.results)
         /\ Len(tasks[t].searched[1].out.results.l) >= 1
    /\ tasks[t].pc = "Extracting" =>
         /\ tasks[t].model_calls = 1
         /\ tasks[t].answered = <<>>
         /\ tasks[t].normalized = EmptyDict
    /\ tasks[t].normalized # EmptyDict =>
         tasks[t].answered # <<>> /\ tasks[t].answered[1].k = "text"
    /\ tasks[t].enhancer_calls > 0 => tasks[t].normalized # EmptyDict
    /\ tasks[t].pc = "Enhancing" =>
         tasks[t].enhancer_calls = 1 /\ tasks[t].targeted_linkedin = <<>>

\* C26: each pipeline run follows the stage order Pending, Searching, then
\* the failed search, no results or the model call (Extracting), then
\* normalization, the enhancer, Done: the model call is made only after the
\* search aggregation has finished with at least one hit, normalization
\* only after the model call returned, the targeted search only after
\* normalization, and no stage is entered again once left or after Done.
C26_StageOrder == []StageHistory /\ [][StageStep]_vars

\* C26 at work: a run has gone through every stage; it searched, called the
\* model, normalized, called the enhancer and returned.
C26_AllStagesPassed ==
  \E t \in 1..Len(tasks) :
    /\ tasks[t].pc = "Done"
    /\ tasks[t].runs = 1
    /\ tasks[t].searched # <<>>
    /\ tasks[t].model_calls = 1
    /\ tasks[t].answered # <<>>
    /\ tasks[t].normalized # EmptyDict
    /\ tasks[t].enhancer_calls = 1
    /\ tasks[t].targeted_linkedin # <<>>

\* C27: nothing is retried within one company's pipeline: the queries of
\* the fixed list are sent one by one, no more of them than the list holds,
\* the model is called at most once and the targeted enhancement query is
\* sent at most once, whether or not a call failed; the pipeline itself is
\* run once.
C27_NothingRetried ==
  \A t \in 1..Len(tasks) :
    /\ tasks[t].runs <= 1
    /\ tasks[t].model_calls <= 1
    /\ tasks[t].enhancer_calls <= 1
    /\ tasks[t].searched # <<>> =>
         /\ Len(tasks[t].searched[1].resps) = NumQueries(rev)
         /\ tasks[t].searched[1].out.issued <= NumQueries(rev)

\* C27 at work: the first query of a run failed and the model call raised;
\* the other queries were sent, the model was called once, and the run
\* returned its record.
C27_FailedCallsNotRepeated ==
  \E t \in 1..Len(tasks) :
    /\ tasks[t].pc = "Done"
    /\ tasks[t].searched # <<>>
    /\ tasks[t].searched[1].resps[1].k = "network"
    /\ tasks[t].searched[1].out.issued = NumQueries(rev)
    /\ tasks[t].model_calls = 1
    /\ tasks[t].answered # <<>>
    /\ tasks[t].answered[1].k = "raise"

\* the extraction of the run succeeded and left the enhancer its case: an
\* owner without a profile link
EnhancerDue(t) ==
  /\ rev = 1
  /\ tasks[t].normalized # EmptyDict
  /\ owner_without_linkedin(tasks[t].normalized)

\* C28: the enhancer step changes no field of the normalized record other
\* than founder_linkedin and confidence, and when it finds no matching link
\* or the provider errors it changes nothing at all: the run then returns
\* exactly the normalized record with company and location; in no case does
\* the step turn a successful extraction into a failure record.
C28_EnhancerKeepsTheRest ==
  \A t \in 1..Len(tasks) :
    EnhancerDue(t) /\ tasks[t].pc \in {"Done", "Raised"} =>
      /\ tasks[t].pc = "Done"
      /\ "error" \notin DOMAIN tasks[t].result
      /\ \A k \in DOMAIN tasks[t].normalized \ {"founder_linkedin", "confidence"} :
           k \in DOMAIN tasks[t].result
             /\ tasks[t].result[k] = tasks[t].normalized[k]
      /\ ~LinkFound(t) =>
           tasks[t].result = FinalResult(1, tasks[t].info, tasks[t].normalized)

\* once the targeted search has been called, the assignments of the step
\* keep to the two fields, and a search that finds nothing or fails leaves
\* the record to be returned as it was
EnhancerAssignsTwoFields ==
  \A t \in 1..Len(tasks) :
    tasks[t].enhanced # <<>> =>
      /\ \A k \in DOMAIN tasks[t].normalized \ {"founder_linkedin", "confidence"} :
           tasks[t].enhanced[1][k] = tasks[t].normalized[k]
      /\ ~LinkFound(t) =>
           /\ tasks[t].enhanced[1] = tasks[t].normalized
           /\ tasks[t].pc = "Done"
           /\ tasks[t].result = FinalResult(1, tasks[t].info, tasks[t].normalized)

\* the record reports a failure: its error is a value other than None
ReportsError(rec) == "error" \in DOMAIN rec /\ rec.error # PyNone

\* C31: in every record the handler can emit (validation error, search
\* failure, model failure, empty model response, unexpected exception, normal
\* result) a non-null error comes with confidence low and with owner_founder
\* null.
C31_ErrorMeansLowAndNoOwner ==
  \A rec \in OutputRecords :
    ReportsError(rec) =>
      /\ "confidence" \in DOMAIN rec /\ rec.confidence = S("low")
      /\ "owner_founder" \in DOMAIN rec /\ rec.owner_founder = PyNone

\* no record reports an error beside a rating above low or an owner, when
\* a record without the owner_founder key is read as naming no owner
ErrorNeverWithOwnerOrRating ==
  \A rec \in OutputRecords :
    ReportsError(rec) =>
      /\ Get(rec, "confidence", PyNone) = S("low")
      /\ Get(rec, "owner_founder", PyNone) = PyNone

\* the records that report an error without an owner_founder key are the
\* validation records of rev 2
UnownedErrorIsValidation ==
  \A rec \in OutputRecords :
    ReportsError(rec) /\ "owner_founder" \notin DOMAIN rec =>
      rev = 2 /\ rec = MissingName(2)

\* run t was handed to the pipeline
Dispatched(t) == t \in 1..Len(tasks)

Finished(t) == t \in 1..Len(tasks) /\ tasks[t].pc = "Done"

\* C32: when the workers are scheduled fairly and every call to the search
\* provider and to the model returns or fails in the end, every dispatched
\* pipeline reaches Done in the end and every request is answered in the end,
\* also for batches larger than the pool.
C32_PipelinesFinishAndBatchAnswered ==
  /\ \A t \in 1..MaxBatch : Dispatched(t) ~> Finished(t)
  /\ <>Responded

\* a request of more companies than the pool has workers is over: one run
\* has raised, a queued run was cancelled and never began
LargeBatchLeftUndone ==
  /\ rev = 3
  /\ Len(tasks) > PoolSize
  /\ Responded
  /\ response = ProcessingError
  /\ \E t \in 1..Len(tasks) : tasks[t].pc = "Raised"
  /\ \E t \in 1..Len(tasks) : tasks[t].pc = "Pending" /\ tasks[t].cancelled

\* every request is answered in the end
BatchAnswered == <>Responded

\* a dispatched pipeline reaches Done in the end, unless a run of the request
\* has raised
FinishedUnlessRaised ==
  \A t \in 1..MaxBatch :
    Dispatched(t) ~>
      (Finished(t) \/ \E u \in 1..Len(tasks) : tasks[u].pc = "Raised")

(***************************************************************************)
(* The functions taken on their own.  The handler is at rest; call holds   *)
(* the arguments of one application, returned what it handed back.         *)
(***************************************************************************)
handler_vars ==
  <<rev, config, body, hpc, next_idx, tasks, validation_errors, all_results,
    response>>

AtRest ==
  /\ config = [serper_key |-> TRUE, gemini_key |-> TRUE]
  /\ body = PyNone
  /\ hpc = "idle"
  /\ next_idx = 1
  /\ tasks = <<>>
  /\ validation_errors = <<>>
  /\ all_results = <<>>
  /\ response = NoResponse

\* a key the mapping does not have
Absent == [t |-> "absent"]

\* what the model may have put under each key of its answer
Mappings ==
  [owner_founder : {Absent, PyNone, S("Jane Doe"), Str(<<" ", "N/A", " ">>),
                    PyInt(0)},
   company_linkedin : {Absent, S("NULL"), CompanyUrl},
   founder_linkedin : {Absent, EmptyStr, ProfileUrl, PyList(<<>>)},
   parent_company : {Absent, S("na"), S("Initech")},
   affiliated_companies : {Absent, PyNone, PyList(<<S("Initech")>>),
                           S("Initech"), PyList(<<>>)},
   ownership_type : {Absent, PyNone, Str(<<" ", "Publicly_Listed">>),
                     S("non_profit"), S("LLC"), PyInt(5)},
   confidence : {Absent, PyNone, S("HIGH"), Str(<<"medium", "\n">>),
                 S("certain")},
   sources_found : {Absent, PyNone, S("Jane Doe is the founder"), S("N/A")},
   notes : {Absent, S("see above")}]

\* the dict with the keys that are there
Present(m) == [k \in {j \in DOMAIN m : m[j] # Absent} |-> m[k]]

\* _coerce_output, whose text is the same in the three revisions
NormalizerInit ==
  /\ rev = 3
  /\ AtRest
  /\ call \in {[fn |-> "_coerce_output", obj |-> m] : m \in Mappings}
  /\ returned = <<>>

\* normalized = _coerce_output(parsed)
Normalize ==
  /\ call.fn = "_coerce_output"
  /\ returned = <<>>
  /\ returned' = <<_coerce_output(Present(call.obj))>>
  /\ UNCHANGED <<handler_vars, call>>

\* _coerce_output(normalized)
NormalizeAgain ==
  /\ call.fn = "_coerce_output"
  /\ Len(returned) = 1
  /\ returned' = Append(returned, _coerce_output(returned[1]))
  /\ UNCHANGED <<handler_vars, call>>

NormalizerNext == Normalize \/ NormalizeAgain

NormalizerSpec == NormalizerInit /\ [][NormalizerNext]_vars

\* C13: _coerce_output is idempotent: for every mapping x (fields missing,
\* null, placeholder strings, mixed-case or padded enum strings, non-string
\* and non-list values) _coerce_output(_coerce_output(x)) = _coerce_output(x).
C13_NormalizerIdempotent ==
  call.fn = "_coerce_output" /\ Len(returned) = 2 => returned[2] = returned[1]

\* C13 at work: a mapping with a padded placeholder, a padded mixed-case
\* enum string, a scalar where a list belongs and a key that is missing has
\* been normalized twice.
C13_UntidyMappingTwice ==
  /\ call.fn = "_coerce_output"
  /\ Len(returned) = 2
  /\ call.obj.owner_founder = Str(<<" ", "N/A", " ">>)
  /\ call.obj.ownership_type = Str(<<" ", "Publicly_Listed">>)
  /\ call.obj.affiliated_companies = S("Initech")
  /\ call.obj.confidence = Absent
  /\ returned[1].owner_founder = PyNone
  /\ returned[1].ownership_type = S("publicly_listed")

\* the tokens the short texts are made of
Alphabet ==
  {TokWs, TokNl, TokFence, TokLb, TokRb, TokDeep, TokWord("Sorry"),
   TokPair("owner_founder", S("Jane Doe")), TokPair("confidence", S("high")),
   TokLit(PyList(<<>>))}

\* JSON inside a narrative
TextNarrative ==
  <<TokWord("Here"), TokWs, TokWord("you"), TokWs, TokWord("go"), TokNl>>
    \o TextNominal \o <<TokNl, TokWord("Thanks")>>

\* an object whose member nests too deep, after a word
TextDeepMember ==
  <<TokWord("Result"), TokWs, TokLb, TokPair("owner_founder", Deep), TokRb>>

Texts ==
  UNION {[1..n -> Alphabet] : n \in 0..MaxText}
    \cup {TextNominal, TextProse, TextFenced, TextList, TextNarrative,
          TextDeepMember}

ExtractorInit ==
  /\ rev \in {1, 2, 3}
  /\ AtRest
  /\ call \in {[fn |-> "_extract_json", text |-> x] : x \in Texts}
  /\ returned = <<>>

\* parsed = _extract_json(text)
Extract ==
  /\ call.fn = "_extract_json"
  /\ returned = <<>>
  /\ returned' = <<_extract_json(rev, call.text)>>
  /\ UNCHANGED <<handler_vars, call>>

ExtractorNext == Extract

ExtractorSpec == ExtractorInit /\ [][ExtractorNext]_vars

\* a string that is a placeholder once trimmed and lower-cased
IsPlaceholder(v) ==
  IsStr(v) /\ Lower(Strip(v.s)) \in {<<>>, <<"none">>, <<"null">>, <<"n/a">>, <<"na">>}

\* the field came as a string and left as the claim says: null for a
\* placeholder, itself otherwise
StringFieldTreated(f) ==
  f \in DOMAIN Present(call.obj) /\ IsStr(call.obj[f]) =>
    returned[1][f] = IF IsPlaceholder(call.obj[f]) THEN PyNone ELSE call.obj[f]

\* C30 as amended: for each of the four fields owner_founder,
\* company_linkedin, founder_linkedin and parent_company, a string value
\* of the normalizer's input that is a placeholder (after trimming and
\* case-insensitively: empty string, "none", "null", "n/a", "na") is
\* rewritten to null in the output, and any other string value is passed
\* through unchanged.
C30_NullableFieldsNullified ==
  call.fn = "_coerce_output" /\ returned # <<>> =>
    \A f \in {"owner_founder", "company_linkedin", "founder_linkedin",
               "parent_company"} : StringFieldTreated(f)

\* C30 at work: a padded "N/A" for the owner came out as null beside a
\* parent company that came out as written.
C30_PaddedPlaceholderNulled ==
  /\ call.fn = "_coerce_output"
  /\ returned # <<>>
  /\ call.obj.owner_founder = Str(<<" ", "N/A", " ">>)
  /\ call.obj.company_linkedin = S("NULL")
  /\ call.obj.parent_company = S("Initech")
  /\ returned[1].owner_founder = PyNone
  /\ returned[1].company_linkedin = PyNone
  /\ returned[1].parent_company = S("Initech")

\* C30 as stated: for each string-valued field of the normalizer's input, a
\* placeholder value is rewritten to null in the output, and any other
\* string value is passed through unchanged.
C30_EveryStringField ==
  call.fn = "_coerce_output" /\ returned # <<>> =>
    \A f \in DOMAIN returned[1] : StringFieldTreated(f)

\* C14: _extract_json never raises on any text (empty, prose, fenced JSON,
\* JSON inside a narrative, a JSON value that is no object, an object
\* lacking the keys) and always returns a mapping that has at least the keys
\* owner_founder and confidence.
C14_ExtractorTotalAndKeyed ==
  call.fn = "_extract_json" /\ returned # <<>> =>
    /\ returned[1].t # "raise"
    /\ IsDict(returned[1])
    /\ {"owner_founder", "confidence"} \subseteq DOMAIN returned[1].d

\* the texts that are no JSON at all do come back as the sentinel, and
\* nothing is raised by revs 1 and 2
ExtractorDegradesToSentinel ==
  call.fn = "_extract_json" /\ returned # <<>> =>
    /\ returned[1].t = "raise" => rev = 3
    /\ (\A i \in 1..Len(call.text) : call.text[i].k \in {"ws", "nl", "word"}) =>
         returned[1] = PyDict(ParseFailure(rev))

\* a page whose first item has no snippet and whose second has no link
RespPartial ==
  [k |-> "ok",
   items |-> <<[url |-> S("u4"), title |-> S("t4"), snippet |-> PyNone],
               [url |-> PyNone, title |-> S("t5"), snippet |-> S("s5")],
               Item3>>]

\* a long page of hits of its own
Page(p) ==
  [k |-> "ok",
   items |-> [i \in 1..PageSize |->
                [url |-> Str(<<p, ToString(i)>>), title |-> S("t"), snippet |-> S("s")]]]

SearchResponses ==
  ProviderResponses
    \cup {Page("a"), Page("b"), Page("c")}
    \cup {RespPartial, [k |-> "http", code |-> 403], [k |-> "http", code |-> 429],
          [k |-> "badjson", req |-> TRUE], [k |-> "badjson", req |-> FALSE],
          [k |-> "timeout"], [k |-> "unexpected"]}

\* search_company_serper_api (rev 3) and search_company_info (revs 1 and 2)
SearcherInit ==
  /\ rev \in {1, 2, 3}
  /\ config \in Configs(rev)
  /\ body = PyNone
  /\ hpc = "idle"
  /\ next_idx = 1
  /\ tasks = <<>>
  /\ validation_errors = <<>>
  /\ all_results = <<>>
  /\ response = NoResponse
  /\ call \in {[fn |-> "search", resps |-> resps, log |-> log] :
                 resps \in [1..NumQueries(rev) -> SearchResponses],
                 log \in LogOutcomes}
  /\ returned = <<>>

Search ==
  /\ call.fn = "search"
  /\ returned = <<>>
  /\ returned' =
       <<IF rev = 3
         THEN search_company_serper_api(config.serper_key, call.resps, call.log)
         ELSE search_company_info(rev, call.resps, call.log)>>
  /\ UNCHANGED <<handler_vars, call>>

SearcherNext == Search

SearcherSpec == SearcherInit /\ [][SearcherNext]_vars

\* the aggregator has handed back a hit list
ListReturned ==
  /\ call.fn = "search"
  /\ returned # <<>>
  /\ ~returned[1].raised
  /\ IsList(returned[1].results)

\* the items the answered queries offered, in query order and rank, that
\* have what a hit needs, as the hits they make
RECURSIVE Offered(_, _)
Offered(r, resps) ==
  IF resps = <<>> THEN <<>>
  ELSE LET page == IF Head(resps).k # "ok" THEN <<>>
                   ELSE IF r = 3 THEN Head(resps).items
                   ELSE SubSeq(Head(resps).items, 1,
                               IF Len(Head(resps).items) < 5
                               THEN Len(Head(resps).items) ELSE 5)
               usable ==
                 SelectSeq(page,
                   LAMBDA item :
                     IF r = 3
                     THEN item.url \notin {PyNone, EmptyStr} /\ item.title # PyNone
                            /\ item.snippet # PyNone
                     ELSE item.title # PyNone /\ item.snippet # PyNone)
           IN [i \in 1..Len(usable) |->
                 [title |-> usable[i].title, snippet |-> usable[i].snippet,
                  url |-> IF usable[i].url = PyNone THEN EmptyStr
                          ELSE usable[i].url]]
                \o Offered(r, Tail(resps))

\* the most hits an aggregation returns
Cap(r) == IF r = 3 THEN SerperCap ELSE DdgCap

\* where a URL is first offered
FirstOffer(offers, url) ==
  CHOOSE k \in 1..Len(offers) :
    offers[k].url = url /\ \A m \in 1..(k - 1) : offers[m].url # url

\* C15: the aggregation deduplicates by exact URL across the queries issued
\* for one company: no URL occurs twice in the returned list, the hit kept for a URL
\* is the one of its first occurrence, no offered URL is lost short of the
\* cap, and the hits stand in first-seen order (query order, then rank
\* within the query).
C15_DedupFirstSeen ==
  ListReturned =>
    LET res == returned[1].results.l
        offers == Offered(rev, SubSeq(call.resps, 1, returned[1].issued))
    IN /\ \A i, j \in 1..Len(res) : i < j => res[i].url # res[j].url
       /\ {res[i].url : i \in 1..Len(res)} \subseteq {offers[k].url : k \in 1..Len(offers)}
       /\ Len(res) < Cap(rev) =>
            {offers[k].url : k \in 1..Len(offers)} \subseteq {res[i].url : i \in 1..Len(res)}
       /\ \A i \in 1..Len(res) : res[i] = offers[FirstOffer(offers, res[i].url)]
       /\ \A i, j \in 1..Len(res) :
            i < j => FirstOffer(offers, res[i].url) < FirstOffer(offers, res[j].url)

\* C15 at work: the first two queries both offered u2, with different
\* titles, and the list holds u1, u2 as first offered, then u3.
C15_SharedUrlKeptOnce ==
  /\ ListReturned
  /\ call.resps[1] = RespA
  /\ call.resps[2] = RespB
  /\ Len(returned[1].results.l) = 3
  /\ returned[1].results.l[2] = [title |-> S("t2"), snippet |-> S("s2"), url |-> S("u2")]
  /\ returned[1].results.l[3].url = S("u3")

\* one of the two outcomes: a list and no reason, or a reason and no list
EitherOr(out) ==
  /\ ~out.raised
  /\ \/ IsList(out.results) /\ out.error = PyNone
     \/ out.results = PyNone /\ IsStr(out.error) /\ Truthy(out.error)

\* C16: search_company_serper_api returns exactly one of two outcomes and
\* never raises: a hit list (possibly empty) with no failure reason, or a
\* failure reason with no hit list; never both, also when an earlier query
\* had gathered hits before a later one failed.
C16_EitherListOrReason ==
  rev = 3 /\ call.fn = "search" /\ returned # <<>> => EitherOr(returned[1])

\* with a logger that works the aggregator does return one of the two
EitherListOrReasonWhenLogged ==
  rev = 3 /\ call.fn = "search" /\ returned # <<>> /\ call.log = "ok" =>
    EitherOr(returned[1])

\* a query that failed by itself: timeout, unreadable body, empty page
QueryFailed(resp) == resp.k \in {"timeout", "badjson"} \/ resp = RespEmpty

\* C17: within one company's aggregation (the logger working) a single
\* query's failure (timeout, parse error, empty response) is skipped: the
\* remaining queries of the fixed list are still issued and the hits of the
\* other queries are still returned.
C17_QueryFailureSkipped ==
  /\ call.fn = "search"
  /\ returned # <<>>
  /\ call.log = "ok"
  /\ rev = 3 => config.serper_key
  /\ \E i \in 1..Len(call.resps) : QueryFailed(call.resps[i])
  /\ \A i \in 1..Len(call.resps) :
       QueryFailed(call.resps[i]) \/ call.resps[i].k = "ok"
  => /\ ListReturned
     /\ returned[1].issued = Len(call.resps)
     /\ LET res == returned[1].results.l
            offers == Offered(rev, call.resps)
        IN Len(res) < Cap(rev) =>
             {res[i].url : i \in 1..Len(res)} = {offers[k].url : k \in 1..Len(offers)}

\* the offers that are the first of their URL, in the order offered
FirstSeen(offers) ==
  LET firsts == {k \in 1..Len(offers) : \A m \in 1..(k - 1) : offers[m].url # offers[k].url}
  IN [i \in 1..Cardinality(firsts) |->
        offers[CHOOSE k \in firsts : Cardinality({m \in firsts : m <= k}) = i]]

\* C29: the aggregated hit list is capped: whatever the provider answers,
\* the list returned holds at most 12 hits (search_company_info) or 20
\* (search_company_serper_api), and it is the prefix of the deduplicated
\* first-seen sequence: the cut drops the latest hits only and reorders
\* nothing.
C29_CappedPrefix ==
  ListReturned =>
    LET res == returned[1].results.l
        seen == FirstSeen(Offered(rev, SubSeq(call.resps, 1, returned[1].issued)))
    IN /\ Len(res) <= Cap(rev)
       /\ Len(res) <= Len(seen)
       /\ Len(res) < Len(seen) => Len(res) = Cap(rev)
       /\ \A i \in 1..Len(res) : res[i] = seen[i]

\* C29 at work: the queries of one aggregation met long pages of different
\* hits, more than the cap in all, and the list was cut at the cap.
C29_CutAtCap ==
  /\ ListReturned
  /\ call.resps[1] = Page("a")
  /\ call.resps[2] = Page("b")
  /\ Len(returned[1].results.l) = Cap(rev)
  /\ Len(FirstSeen(Offered(rev, call.resps))) > Cap(rev)
  /\ returned[1].results.l[1].url = Str(<<"a", "1">>)

====
